---- MODULE Spec2Model ----
(***************************************************************************)
(* Model of the two utilities of azure-agent-capstone:                     *)
(*   azure_ingest.py   chunk_text, upload_documents, resolve_api_version   *)
(*   agent_trigger.py  run_query (with its extract_text), main             *)
(* The utilities share no state.  A behaviour runs one of them, chosen by  *)
(* `mode` in Init; the variables of the others keep their initial values.  *)
(* Strings the code inspects character by character (text to chunk, user   *)
(* input, message roles) are sequences of one-character strings.           *)
(***************************************************************************)
EXTENDS Integers, Sequences, FiniteSets, TLC

VARIABLES
    mode,        \* which routine this behaviour runs
    \* ---- chunk_text
    text,        \* argument text
    chunk_size,  \* argument chunk_size
    overlap,     \* argument overlap
    clean_text,  \* local clean_text
    start,       \* local start
    chunks,      \* local chunks (the returned list once cpc = "done")
    cpc,         \* position in chunk_text: "call", "loop", "done"
    \* ---- upload_documents
    docs,        \* argument docs
    ui,          \* loop variable i
    calls,       \* payloads of the requests.post calls issued so far
    resps,       \* outcome of each of those calls
    ulog,        \* ranges logged by "Uploaded batch %s-%s"
    uerr,        \* exception leaving upload_documents, NoError if none
    upc,         \* position: "call", "loop", "done", "raised"
    \* ---- resolve_api_version
    override,    \* os.getenv("AZURE_SEARCH_API_VERSION")
    rv,          \* index in DEFAULT_API_VERSIONS of the next candidate
    probes,      \* requests.get probes issued so far, with their outcomes
    rresult,     \* returned version
    rerr,        \* exception leaving resolve_api_version, NoError if none
    rpc,         \* position: "call", "loop", "returned", "raised"
    \* ---- agent_trigger.main and run_query
    threads,     \* threads created by project.agents.threads.create()
    thread_id,   \* thread.id of the session, 0 before it exists
    messages,    \* the messages of the thread, oldest first
    reads,       \* what each input("You: ") call produced
    user_query,  \* local user_query of main
    posts,       \* messages.create calls: thread and content
    runs,        \* runs.create_and_process calls: thread and final status
    output,      \* what the last run_query printed
    apc          \* position: "init", "read", "query", "exited", "eof"

chunkVars == <<text, chunk_size, overlap, clean_text, start, chunks, cpc>>
uploadVars == <<docs, ui, calls, resps, ulog, uerr, upc>>
resolveVars == <<override, rv, probes, rresult, rerr, rpc>>
agentVars == <<threads, thread_id, messages, reads, user_query, posts, runs, output, apc>>
vars == <<mode, chunkVars, uploadVars, resolveVars, agentVars>>

Modes == {"chunk", "upload", "resolve", "agent"}

-----------------------------------------------------------------------------
(* Bounds of the model *)

MaxTextLen == 10
MaxChunkSize == 4
MaxOverlap == 4

\* Cap on loop iterations of chunk_text.  A run with chunk_size > overlap
\* needs at most Len(clean_text) <= MaxTextLen iterations, so the cap only
\* cuts runs that do not advance.
MaxIter == MaxTextLen + 2

\* Largest number of records handed to upload_documents
MaxDocs == 65

\* Largest number of input("You: ") calls in one session
MaxReads == 2

-----------------------------------------------------------------------------
(* Python string primitives *)

Letters == <<"A", "B", "C", "D", "E", "F", "G", "H", "I", "J", "K", "L">>

Whitespace == {" ", "\t", "\n", "\r"}

Max(a, b) == IF a > b THEN a ELSE b
Min(a, b) == IF a < b THEN a ELSE b

\* s[a:b] for a Python sequence s and integers a, b (negative indices count
\* from the end, out-of-range indices are clamped).
PySlice(s, a, b) ==
    LET n  == Len(s)
        lo == IF a < 0 THEN Max(a + n, 0) ELSE Min(a, n)
        hi == IF b < 0 THEN Max(b + n, 0) ELSE Min(b, n)
    IN  IF lo < hi THEN SubSeq(s, lo + 1, hi) ELSE <<>>

\* s.replace(old, new) for one-character old and new
Replace(s, old, new) == [i \in 1..Len(s) |-> IF s[i] = old THEN new ELSE s[i]]

\* s.strip()
Strip(s) ==
    LET keep == {i \in 1..Len(s) : s[i] \notin Whitespace}
    IN  IF keep = {} THEN <<>>
        ELSE SubSeq(s, CHOOSE i \in keep : \A j \in keep : i <= j,
                       CHOOSE i \in keep : \A j \in keep : i >= j)

-----------------------------------------------------------------------------
(* chunk_text *)

\* text.replace("\r", "\n").replace("\t", " ").strip()
Clean(t) == Strip(Replace(Replace(t, "\r", "\n"), "\t", " "))

\* Input texts: every prefix of Letters up to MaxTextLen, and texts with the
\* whitespace the normalisation acts on.
Texts ==
    {SubSeq(Letters, 1, n) : n \in 0..MaxTextLen}
    \cup {<<" ", "\t">>,
          <<"\t", "A", "\r", "B", "\t", "C", "D", " ">>,
          <<"\r", "A", "B", "C", "D", "E", "\n">>}

ChunkBegin ==
    /\ mode = "chunk"
    /\ cpc = "call"
    /\ clean_text' = Clean(text)
    /\ chunks' = <<>>
    /\ start' = 0
    /\ cpc' = "loop"
    /\ UNCHANGED <<mode, text, chunk_size, overlap, uploadVars, resolveVars, agentVars>>

\* ChunkStep with the overlap forgotten: start = end
ChunkStepNoOverlap ==
    /\ mode = "chunk"
    /\ cpc = "loop"
    /\ start < Len(clean_text)
    /\ Len(chunks) < MaxIter
    /\ LET end == start + chunk_size
       IN  /\ chunks' = Append(chunks, PySlice(clean_text, start, end))
           /\ start' = end
    /\ UNCHANGED <<mode, text, chunk_size, overlap, clean_text, cpc>>
    /\ UNCHANGED <<uploadVars, resolveVars, agentVars>>

\* one iteration of `while start < len(clean_text)`
ChunkStep ==
    /\ mode = "chunk"
    /\ cpc = "loop"
    /\ start < Len(clean_text)
    /\ Len(chunks) < MaxIter
    /\ LET end == start + chunk_size
       IN  /\ chunks' = Append(chunks, PySlice(clean_text, start, end))
           /\ start' = end - overlap
    /\ UNCHANGED <<mode, text, chunk_size, overlap, clean_text, cpc>>
    /\ UNCHANGED <<uploadVars, resolveVars, agentVars>>

\* the loop condition is false: return chunks
ChunkReturn ==
    /\ mode = "chunk"
    /\ cpc = "loop"
    /\ ~(start < Len(clean_text))
    /\ cpc' = "done"
    /\ UNCHANGED <<mode, text, chunk_size, overlap, clean_text, start, chunks>>
    /\ UNCHANGED <<uploadVars, resolveVars, agentVars>>

-----------------------------------------------------------------------------
(* upload_documents *)

NoError == [type |-> "none"]

batch_size == 32

\* What requests.post can produce: a response with a status code and a body,
\* or an exception (connection error, timeout), which the code does not catch.
PostOutcomes ==
    {[raised |-> FALSE, status_code |-> 200, text |-> "ok"],
     [raised |-> FALSE, status_code |-> 207, text |-> "partial"],
     [raised |-> FALSE, status_code |-> 400, text |-> "bad request"],
     [raised |-> FALSE, status_code |-> 503, text |-> "unavailable"],
     [raised |-> TRUE, status_code |-> 0, text |-> ""]}

\* requests.Response.ok
Ok(r) == ~r.raised /\ r.status_code < 400

\* Batch with the slice one record short: docs[i : i + batch_size - 1]
BatchShort(d, i) == PySlice(d, i, i + batch_size - 1)

\* batch = docs[i : i + batch_size]
Batch(d, i) == PySlice(d, i, i + batch_size)

\* UploadError without the response body
UploadErrorNoBody(r) ==
    [type |-> "RuntimeError", msg |-> "Document upload failed",
     status_code |-> r.status_code, text |-> ""]

\* RuntimeError(f"Document upload failed: {response.status_code} {response.text}"):
\* the fields are the values the message is built from
UploadError(r) ==
    [type |-> "RuntimeError", msg |-> "Document upload failed",
     status_code |-> r.status_code, text |-> r.text]

\* `if not docs: return`, else enter the loop over range(0, len(docs), 32)
UploadBegin ==
    /\ mode = "upload"
    /\ upc = "call"
    /\ upc' = IF Len(docs) = 0 THEN "done" ELSE "loop"
    /\ ui' = 0
    /\ UNCHANGED <<mode, docs, calls, resps, ulog, uerr, chunkVars, resolveVars, agentVars>>

\* one iteration of the loop: post the batch docs[i : i + batch_size]
UploadBatch ==
    /\ mode = "upload"
    /\ upc = "loop"
    /\ \E r \in PostOutcomes :
        LET batch == Batch(docs, ui)
            next  == ui + batch_size
        IN  /\ calls' = Append(calls, batch)
            /\ resps' = Append(resps, r)
            /\ IF r.raised
               THEN /\ uerr' = [type |-> "RequestException"]
                    /\ upc' = "raised"
                    /\ UNCHANGED <<ui, ulog>>
               ELSE IF ~Ok(r)
               THEN /\ uerr' = UploadError(r)
                    /\ upc' = "raised"
                    /\ UNCHANGED <<ui, ulog>>
               ELSE /\ ulog' = Append(ulog, <<ui + 1, ui + Len(batch)>>)
                    /\ ui' = next
                    /\ upc' = IF next < Len(docs) THEN "loop" ELSE "done"
                    /\ UNCHANGED uerr
    /\ UNCHANGED <<mode, docs, chunkVars, resolveVars, agentVars>>

-----------------------------------------------------------------------------
(* resolve_api_version *)

DEFAULT_API_VERSIONS ==
    <<"2024-10-01-Preview", "2024-05-01-Preview", "2023-11-01", "2023-11-01-Preview">>

\* os.getenv: unset, set to the empty string, or set to a version
Overrides ==
    {[set |-> FALSE, value |-> ""],
     [set |-> TRUE, value |-> ""],
     [set |-> TRUE, value |-> "2020-06-30"]}

\* `if override:`
Truthy(o) == o.set /\ o.value # ""

\* What requests.get can produce: requests.RequestException or a status code
ProbeOutcomes ==
    {[raised |-> TRUE, status_code |-> 0]}
    \cup {[raised |-> FALSE, status_code |-> c] : c \in {200, 400, 401, 403, 404, 500}}

\* ResolveBegin with the override test dropped
ResolveBeginNoOverride ==
    /\ mode = "resolve"
    /\ rpc = "call"
    /\ rpc' = "loop"
    /\ rv' = 1
    /\ UNCHANGED <<mode, override, probes, rresult, rerr, chunkVars, uploadVars, agentVars>>

ResolveBegin ==
    /\ mode = "resolve"
    /\ rpc = "call"
    /\ IF Truthy(override)
       THEN /\ rresult' = override.value
            /\ rpc' = "returned"
       ELSE /\ rpc' = "loop"
            /\ UNCHANGED rresult
    /\ rv' = 1
    /\ UNCHANGED <<mode, override, probes, rerr, chunkVars, uploadVars, agentVars>>

\* ProbeVerdict with 403 treated like any other rejected status
ProbeVerdictSkip403(o) ==
    IF o.raised THEN "skip"
    ELSE IF o.status_code = 200 THEN "accept"
    ELSE IF o.status_code = 401 THEN "unauthorized"
    ELSE "skip"

\* ProbeVerdict accepting every status below 500
ProbeVerdictLax(o) ==
    IF o.raised THEN "skip"
    ELSE IF o.status_code = 401 THEN "unauthorized"
    ELSE IF o.status_code = 403 THEN "forbidden"
    ELSE IF o.status_code < 500 THEN "accept"
    ELSE "skip"

\* what the body of the loop does with the outcome of requests.get
ProbeVerdict(o) ==
    IF o.raised THEN "skip"
    ELSE IF o.status_code = 200 THEN "accept"
    ELSE IF o.status_code = 401 THEN "unauthorized"
    ELSE IF o.status_code = 403 THEN "forbidden"
    ELSE "skip"

\* one iteration of `for version in DEFAULT_API_VERSIONS`
ResolveProbe ==
    /\ mode = "resolve"
    /\ rpc = "loop"
    /\ rv <= Len(DEFAULT_API_VERSIONS)
    /\ \E o \in ProbeOutcomes :
        LET version == DEFAULT_API_VERSIONS[rv]
            verdict == ProbeVerdict(o)
        IN  /\ probes' = Append(probes, [version |-> version, outcome |-> o])
            /\ CASE verdict = "accept" ->
                    /\ rresult' = version
                    /\ rpc' = "returned"
                    /\ UNCHANGED <<rv, rerr>>
                 [] verdict = "unauthorized" ->
                    /\ rerr' = [type |-> "RuntimeError", msg |-> "Unauthorized", tried |-> <<>>]
                    /\ rpc' = "raised"
                    /\ UNCHANGED <<rv, rresult>>
                 [] verdict = "forbidden" ->
                    /\ rerr' = [type |-> "RuntimeError", msg |-> "Forbidden", tried |-> <<>>]
                    /\ rpc' = "raised"
                    /\ UNCHANGED <<rv, rresult>>
                 [] OTHER ->
                    /\ rv' = rv + 1
                    /\ UNCHANGED <<rresult, rerr, rpc>>
    /\ UNCHANGED <<mode, override, chunkVars, uploadVars, agentVars>>

\* the list is exhausted: raise, naming the versions tried
ResolveExhausted ==
    /\ mode = "resolve"
    /\ rpc = "loop"
    /\ rv > Len(DEFAULT_API_VERSIONS)
    /\ rerr' = [type |-> "RuntimeError",
                msg |-> "No supported API version found",
                tried |-> DEFAULT_API_VERSIONS]
    /\ rpc' = "raised"
    /\ UNCHANGED <<mode, override, rv, probes, rresult, chunkVars, uploadVars, agentVars>>

-----------------------------------------------------------------------------
(* agent_trigger: values of the SDK's loosely structured message objects *)

\* A Python value as extract_text sees it: a missing attribute, None, a str,
\* an object without a usable .value, an object whose .value is the str s.
Absent == [t |-> "absent", s |-> <<>>]
PNone == [t |-> "none", s |-> <<>>]
PStr(x) == [t |-> "str", s |-> x]
PObj == [t |-> "obj", s |-> <<>>]
PObjVal(x) == [t |-> "objval", s |-> x]

\* hasattr(c, a) and c.a
HasTruthy(p) == p.t \in {"obj", "objval"} \/ (p.t = "str" /\ p.s # <<>>)

\* getattr(p, "value", None), with None read as the empty string
ValueOf(p) == IF p.t = "objval" THEN p.s ELSE <<>>

UpperCase == <<"A", "B", "C", "D", "E", "F", "G", "H", "I", "J", "K", "L", "M",
               "N", "O", "P", "Q", "R", "S", "T", "U", "V", "W", "X", "Y", "Z">>
LowerCase == <<"a", "b", "c", "d", "e", "f", "g", "h", "i", "j", "k", "l", "m",
               "n", "o", "p", "q", "r", "s", "t", "u", "v", "w", "x", "y", "z">>

\* str.lower()
Lower(s) ==
    [i \in 1..Len(s) |->
        IF \E k \in 1..Len(UpperCase) : UpperCase[k] = s[i]
        THEN LowerCase[CHOOSE k \in 1..Len(UpperCase) : UpperCase[k] = s[i]]
        ELSE s[i]]

\* pat in s
Contains(s, pat) ==
    \E i \in 0..(Len(s) - Len(pat)) : SubSeq(s, i + 1, i + Len(pat)) = pat

\* what one element of msg.text_messages appends to parts
TextMessageParts(tm) ==
    IF HasTruthy(tm) /\ ValueOf(tm) # <<>> THEN <<ValueOf(tm)>> ELSE <<>>

\* what one element of msg.content appends to parts
ContentParts(c) ==
    (IF HasTruthy(c.text)
     THEN LET val == IF c.text.t = "str" THEN c.text.s ELSE ValueOf(c.text)
          IN  IF val # <<>> THEN <<val>> ELSE <<>>
     ELSE <<>>)
    \o (IF HasTruthy(c.value) THEN <<c.value.s>> ELSE <<>>)

RECURSIVE TextParts(_, _)
\* parts after `for tm in msg.text_messages`, from element k on
TextParts(tms, k) ==
    IF k > Len(tms) THEN <<>> ELSE TextMessageParts(tms[k]) \o TextParts(tms, k + 1)

RECURSIVE AllContentParts(_, _)
\* parts after `for c in msg.content`, from element k on
AllContentParts(cs, k) ==
    IF k > Len(cs) THEN <<>> ELSE ContentParts(cs[k]) \o AllContentParts(cs, k + 1)

extract_text(msg) ==
    LET tparts == TextParts(msg.text_messages, 1)
        cparts == AllContentParts(msg.content, 1)
    IN  IF msg.text_messages # <<>> /\ tparts # <<>> THEN tparts[Len(tparts)]
        ELSE IF msg.content # <<>> /\ cparts # <<>> THEN cparts[Len(cparts)]
        ELSE <<>>

NoOutput == [kind |-> "none", text |-> <<>>]

RECURSIVE ScanReplySkipEmpty(_, _)
\* ScanReply going on to older messages when the selected one has no text
ScanReplySkipEmpty(msgs, k) ==
    IF k = 0 THEN [kind |-> "no_reply", text |-> <<>>]
    ELSE LET role == Lower(msgs[k].role)
             txt  == extract_text(msgs[k])
         IN  IF (Contains(role, <<"a", "g", "e", "n", "t">>)
                 \/ Contains(role, <<"a", "s", "s", "i", "s", "t", "a", "n", "t">>))
                /\ txt # <<>>
             THEN [kind |-> "reply", text |-> txt]
             ELSE ScanReplySkipEmpty(msgs, k - 1)

RECURSIVE ScanReply(_, _)
\* `for message in reversed(messages)`, at index k, and the final print
ScanReply(msgs, k) ==
    IF k = 0 THEN [kind |-> "no_reply", text |-> <<>>]
    ELSE LET role == Lower(msgs[k].role)
         IN  IF Contains(role, <<"a", "g", "e", "n", "t">>)
                \/ Contains(role, <<"a", "s", "s", "i", "s", "t", "a", "n", "t">>)
             THEN LET txt == extract_text(msgs[k])
                  IN  IF txt # <<>> THEN [kind |-> "reply", text |-> txt]
                      ELSE [kind |-> "no_text", text |-> <<>>]
             ELSE ScanReply(msgs, k - 1)

-----------------------------------------------------------------------------
(* agent_trigger: the thread's messages and the user's input *)

RoleUser == <<"u", "s", "e", "r">>
RoleAssistant == <<"a", "s", "s", "i", "s", "t", "a", "n", "t">>
\* str() of the SDK's role enumeration members
RoleEnumUser == <<"M", "e", "s", "s", "a", "g", "e", "R", "o", "l", "e", ".", "U", "S", "E", "R">>
RoleEnumAgent == <<"M", "e", "s", "s", "a", "g", "e", "R", "o", "l", "e", ".", "A", "G", "E", "N", "T">>
RoleTool == <<"t", "o", "o", "l">>

Hello == <<"h", "e", "l", "l", "o">>
One == <<"o", "n", "e">>
Two == <<"t", "w", "o">>

Msg(role, tms, content) == [role |-> role, text_messages |-> tms, content |-> content]
Part(t, v) == [text |-> t, value |-> v]

\* the message the service stores for messages.create(role="user", content=q)
UserMessage(q) == Msg(RoleUser, <<PObjVal(q)>>, <<Part(PObjVal(q), Absent)>>)

\* Messages a run can add to the thread.  Content parts carry .value as a
\* str or not at all.
MHello == Msg(RoleAssistant, <<PObjVal(Hello)>>, <<Part(PObjVal(Hello), Absent)>>)
MTwoSegments ==
    Msg(RoleEnumAgent, <<PObjVal(One), PObjVal(Two)>>,
        <<Part(PObjVal(One), Absent), Part(PObjVal(Two), Absent)>>)
MContentOnly == Msg(RoleAssistant, <<>>, <<Part(PStr(One), Absent), Part(Absent, PStr(Two))>>)
MTextAndValue == Msg(RoleAssistant, <<PObj>>, <<Part(PStr(One), PStr(Two))>>)
MSegmentOverContent == Msg(RoleAssistant, <<PObjVal(One)>>, <<Part(PStr(Two), Absent)>>)
MNoText == Msg(RoleAssistant, <<PObjVal(<<>>)>>, <<Part(PNone, Absent), Part(PObj, PNone)>>)
MBare == Msg(RoleEnumAgent, <<>>, <<>>)
MTool == Msg(RoleTool, <<PObjVal(Two)>>, <<Part(PObjVal(Two), Absent)>>)
MEnumUser == Msg(RoleEnumUser, <<PObjVal(Two)>>, <<Part(PObjVal(Two), Absent)>>)

RunReplies ==
    {<<>>, <<MHello>>, <<MTwoSegments>>, <<MContentOnly>>, <<MTextAndValue>>,
     <<MSegmentOverContent>>, <<MNoText>>, <<MBare>>, <<MTool>>, <<MEnumUser>>,
     <<MHello, MNoText>>, <<MHello, MTool>>}

\* What input("You: ") can produce: a line, or EOFError at end of input
Line(cs) == [eof |-> FALSE, line |-> cs]
EndOfInput == [eof |-> TRUE, line |-> <<>>]

Quit == <<"q", "u", "i", "t">>
Exit == <<"e", "x", "i", "t">>

Inputs ==
    {EndOfInput,
     Line(Quit), Line(Exit), Line(<<"Q", "U", "I", "T">>),
     Line(<<" ", "E", "x", "i", "t", "\t">>),
     Line(<<>>), Line(<<" ", " ">>),
     Line(<<"h", "i">>), Line(<<" ", "H", "i", " ">>), Line(<<"e", "x", "i", "t", "s">>)}

\* thread = project.agents.threads.create()
MainStart ==
    /\ mode = "agent"
    /\ apc = "init"
    /\ threads' = threads + 1
    /\ thread_id' = threads + 1
    /\ apc' = "read"
    /\ UNCHANGED <<mode, messages, reads, user_query, posts, runs, output>>
    /\ UNCHANGED <<chunkVars, uploadVars, resolveVars>>

\* ReadInput without the `if not user_query: continue` test
ReadInputNoBlankTest ==
    /\ mode = "agent"
    /\ apc = "read"
    /\ Len(reads) < MaxReads
    /\ \E inp \in Inputs :
        /\ reads' = Append(reads, inp)
        /\ IF inp.eof
           THEN /\ apc' = "eof"
                /\ UNCHANGED user_query
           ELSE /\ user_query' = Strip(inp.line)
                /\ apc' = IF Lower(user_query') \in {Quit, Exit} THEN "exited"
                          ELSE "query"
    /\ UNCHANGED <<mode, threads, thread_id, messages, posts, runs, output>>
    /\ UNCHANGED <<chunkVars, uploadVars, resolveVars>>

\* user_query = input("You: ").strip() and the two tests that follow it
ReadInput ==
    /\ mode = "agent"
    /\ apc = "read"
    /\ Len(reads) < MaxReads
    /\ \E inp \in Inputs :
        /\ reads' = Append(reads, inp)
        /\ IF inp.eof
           THEN /\ apc' = "eof"
                /\ UNCHANGED user_query
           ELSE /\ user_query' = Strip(inp.line)
                /\ apc' = IF Lower(user_query') \in {Quit, Exit} THEN "exited"
                          ELSE IF user_query' = <<>> THEN "read"
                          ELSE "query"
    /\ UNCHANGED <<mode, threads, thread_id, messages, posts, runs, output>>
    /\ UNCHANGED <<chunkVars, uploadVars, resolveVars>>

\* run_query(project, orchestrator_agent_id, thread.id, user_query)
RunQuery ==
    /\ mode = "agent"
    /\ apc = "query"
    /\ \E status \in {"completed", "failed"} :
       \E replies \in (IF status = "failed" THEN {<<>>, <<MHello>>} ELSE RunReplies) :
        LET listed == Append(messages, UserMessage(user_query)) \o replies
        IN  /\ posts' = Append(posts, [thread |-> thread_id, content |-> user_query])
            /\ runs' = Append(runs, [thread |-> thread_id, status |-> status])
            /\ messages' = listed
            /\ output' = IF status = "failed"
                         THEN [kind |-> "run_failed", text |-> <<>>]
                         ELSE ScanReply(listed, Len(listed))
    /\ apc' = "read"
    /\ UNCHANGED <<mode, threads, thread_id, reads, user_query>>
    /\ UNCHANGED <<chunkVars, uploadVars, resolveVars>>

-----------------------------------------------------------------------------

Init ==
    /\ mode \in Modes
    /\ IF mode = "chunk"
       THEN /\ text \in Texts
            /\ chunk_size \in 1..MaxChunkSize
            /\ overlap \in 0..MaxOverlap
       ELSE /\ text = <<>>
            /\ chunk_size = 1
            /\ overlap = 0
    /\ clean_text = <<>>
    /\ start = 0
    /\ chunks = <<>>
    /\ cpc = "call"
    /\ IF mode = "upload"
       THEN \E n \in 0..MaxDocs : docs = [k \in 1..n |-> k]
       ELSE docs = <<>>
    /\ ui = 0
    /\ calls = <<>>
    /\ resps = <<>>
    /\ ulog = <<>>
    /\ uerr = NoError
    /\ upc = "call"
    /\ IF mode = "resolve"
       THEN override \in Overrides
       ELSE override = [set |-> FALSE, value |-> ""]
    /\ rv = 1
    /\ probes = <<>>
    /\ rresult = ""
    /\ rerr = NoError
    /\ rpc = "call"
    /\ threads = 0
    /\ thread_id = 0
    /\ messages = <<>>
    /\ reads = <<>>
    /\ user_query = <<>>
    /\ posts = <<>>
    /\ runs = <<>>
    /\ output = NoOutput
    /\ apc = "init"

Next ==
    \/ ChunkBegin
    \/ ChunkStep
    \/ ChunkReturn
    \/ UploadBegin
    \/ UploadBatch
    \/ ResolveBegin
    \/ ResolveProbe
    \/ ResolveExhausted
    \/ MainStart
    \/ ReadInput
    \/ RunQuery

Spec == Init /\ [][Next]_vars

-----------------------------------------------------------------------------
(* Properties of chunk_text *)

FirstChars(s, k) == SubSeq(s, 1, k)
LastChars(s, k) == SubSeq(s, Len(s) - k + 1, Len(s))

\* C1: for chunk_size > overlap >= 0, chunk_text terminates (it makes at most
\* one iteration per character of the normalised text and then returns) and
\* every returned chunk other than the last has length exactly chunk_size.
C1_NonFinalChunksFull ==
    (mode = "chunk" /\ chunk_size > overlap /\ overlap >= 0) =>
        /\ Len(chunks) <= Len(clean_text)
        /\ cpc = "done" =>
            \A i \in 1..(Len(chunks) - 1) : Len(chunks[i]) = chunk_size

\* C2: with overlap >= chunk_size and a non-empty text, every loop iteration
\* strictly increases the scan position.
C2_ForwardProgress ==
    [][(mode = "chunk" /\ cpc = "loop" /\ overlap >= chunk_size
        /\ Len(clean_text) > 0 /\ chunks' # chunks) => start' > start]_vars

\* C3: for chunk_size > overlap, whenever chunks i and i+1 both have length
\* chunk_size, the last `overlap` characters of chunk i are the first
\* `overlap` characters of chunk i+1.
C3_OverlapShared ==
    (mode = "chunk" /\ chunk_size > overlap) =>
        \A i \in 1..(Len(chunks) - 1) :
            (Len(chunks[i]) = chunk_size /\ Len(chunks[i + 1]) = chunk_size)
                => LastChars(chunks[i], overlap) = FirstChars(chunks[i + 1], overlap)

\* chunk_text("ABCDEFGHIJ", 4, 2) has returned: four full chunks, each
\* sharing two characters with the next one
C3_Witness ==
    /\ mode = "chunk" /\ cpc = "done"
    /\ clean_text = SubSeq(Letters, 1, 10) /\ chunk_size = 4 /\ overlap = 2
    /\ chunks = << <<"A", "B", "C", "D">>, <<"C", "D", "E", "F">>,
                   <<"E", "F", "G", "H">>, <<"G", "H", "I", "J">>, <<"I", "J">> >>

-----------------------------------------------------------------------------
(* Properties of upload_documents *)

RECURSIVE Concat(_)
Concat(ss) == IF ss = <<>> THEN <<>> ELSE Head(ss) \o Concat(Tail(ss))

CeilDiv(n, d) == (n + d - 1) \div d

\* C4: when every response is a success, n records are uploaded in exactly
\* ceil(n/32) calls, in input order, each of at most 32 records and all but
\* the last of exactly 32, whose concatenation is the input; none for n = 0.
C4_BatchesPartitionDocs ==
    (mode = "upload" /\ upc = "done") =>
        /\ \A k \in 1..Len(resps) : Ok(resps[k])
        /\ Len(calls) = CeilDiv(Len(docs), 32)
        /\ \A k \in 1..Len(calls) :
            /\ Len(calls[k]) <= 32
            /\ Len(calls[k]) >= 1
            /\ k < Len(calls) => Len(calls[k]) = 32
        /\ Concat(calls) = docs

\* 65 records were uploaded in calls of 32, 32 and 1 records
C4_Witness ==
    /\ mode = "upload" /\ upc = "done" /\ Len(docs) = 65
    /\ Len(calls) = 3
    /\ Len(calls[1]) = 32 /\ Len(calls[2]) = 32 /\ Len(calls[3]) = 1

NonSuccess(r) == ~r.raised /\ r.status_code >= 400

\* the error names records first..last of the k-th batch
CarriesRange(e, k) ==
    /\ "range" \in DOMAIN e
    /\ e.range = <<32 * (k - 1) + 1, 32 * (k - 1) + Len(calls[k])>>

\* C5 as stated: a non-success response to a batch aborts the upload with an
\* error that carries the batch's range and the server's status and body, and
\* no later batch is sent.
C5_AbortCarriesRange ==
    \A k \in 1..Len(resps) :
        NonSuccess(resps[k]) =>
            /\ upc = "raised" /\ k = Len(calls)
            /\ uerr.type = "RuntimeError"
            /\ uerr.status_code = resps[k].status_code
            /\ uerr.text = resps[k].text
            /\ CarriesRange(uerr, k)

\* C5 amended: a non-success response to a batch aborts the upload with an
\* error that carries the server's status and body, and no later batch is
\* sent.
C5_AbortCarriesStatusAndBody ==
    \A k \in 1..Len(resps) :
        NonSuccess(resps[k]) =>
            /\ upc = "raised" /\ k = Len(calls)
            /\ uerr.type = "RuntimeError"
            /\ uerr.status_code = resps[k].status_code
            /\ uerr.text = resps[k].text

\* the second of three batches was refused with 503: the third was not sent
C5_Witness ==
    /\ mode = "upload" /\ upc = "raised" /\ Len(docs) = 65
    /\ Len(calls) = 2 /\ Len(ulog) = 1
    /\ resps[2].status_code = 503 /\ uerr.text = "unavailable"

-----------------------------------------------------------------------------
(* Properties of resolve_api_version *)

OverrideGiven == override.set /\ override.value # ""

AuthFailure(p) == ~p.outcome.raised /\ p.outcome.status_code \in {401, 403}
Success(p) == ~p.outcome.raised /\ p.outcome.status_code = 200

\* C6: with the override given, no probe is issued and the override is the
\* value returned.
C6_OverrideBypassesProbing ==
    (mode = "resolve" /\ OverrideGiven) =>
        /\ probes = <<>>
        /\ rpc \in {"call", "returned"}
        /\ rpc = "returned" => rresult = override.value

C6_Witness ==
    /\ mode = "resolve" /\ rpc = "returned"
    /\ override.set /\ override.value = "2020-06-30" /\ rresult = "2020-06-30"

\* C7: a probe answered 401 or 403 is the last probe issued, and the
\* resolver has raised a fatal error.
C7_AuthFailureAborts ==
    \A k \in 1..Len(probes) :
        AuthFailure(probes[k]) =>
            /\ k = Len(probes)
            /\ rpc = "raised"
            /\ rerr.type = "RuntimeError"

\* a 401 on the first candidate: one probe, then the error
C7_Witness ==
    /\ mode = "resolve" /\ rpc = "raised" /\ Len(probes) = 1
    /\ probes[1].version = "2024-10-01-Preview"
    /\ probes[1].outcome.status_code = 401

\* C8: without an override and without a 401/403, the candidates are probed
\* in preference order, each at most once; every probe but the last was a
\* network error or a non-200 status; a 200 ends the probing and its version
\* is returned; with no 200 at all the error names all versions tried.
C8_FirstAcceptedVersion ==
    (mode = "resolve" /\ ~OverrideGiven /\ \A k \in 1..Len(probes) : ~AuthFailure(probes[k])) =>
        /\ Len(probes) <= Len(DEFAULT_API_VERSIONS)
        /\ \A k \in 1..Len(probes) : probes[k].version = DEFAULT_API_VERSIONS[k]
        /\ \A k \in 1..Len(probes) :
            Success(probes[k]) =>
                /\ k = Len(probes)
                /\ rpc = "returned"
                /\ rresult = probes[k].version
        /\ rpc = "returned" => (probes # <<>> /\ Success(probes[Len(probes)]))
        /\ rpc = "raised" =>
            /\ Len(probes) = Len(DEFAULT_API_VERSIONS)
            /\ rerr.type = "RuntimeError"
            /\ rerr.tried = <<"2024-10-01-Preview", "2024-05-01-Preview",
                              "2023-11-01", "2023-11-01-Preview">>
        /\ rpc = "loop" => rv = Len(probes) + 1

\* a network error, then a 404, then a 200: the third candidate is returned
C8_Witness ==
    /\ mode = "resolve" /\ rpc = "returned" /\ ~override.set
    /\ Len(probes) = 3
    /\ probes[1].outcome.raised
    /\ probes[2].outcome.status_code = 404
    /\ rresult = "2023-11-01"

-----------------------------------------------------------------------------
(* Properties of run_query and main *)

DenotesAssistant(role) == role \in {RoleAssistant, RoleEnumAgent}

NonEmptyTexts(ps) == {p.s : p \in {q \in ps : q.t \in {"str", "objval"} /\ q.s # <<>>}}
Range(f) == {f[i] : i \in DOMAIN f}

\* the text values of the structured text segments of m
SegmentTexts(m) ==
    LET idx == {i \in 1..Len(m.text_messages) :
                    m.text_messages[i].t = "objval" /\ m.text_messages[i].s # <<>>}
    IN  [i \in idx |-> m.text_messages[i].s]

\* every text value found in the generic content parts of m
ContentTexts(m) ==
    NonEmptyTexts({c.text : c \in Range(m.content)} \cup {c.value : c \in Range(m.content)})

\* C9: after a run that did not fail, the output is decided by the most
\* recent message with an assistant role alone: its text (the last text
\* segment if it has one, else a text of its content parts), the no-text
\* outcome if it has no text, and the no-reply sentinel if there is no such
\* message.
C9_LatestAssistantReply ==
    (mode = "agent" /\ runs # <<>> /\ runs[Len(runs)].status # "failed") =>
        LET A == {k \in 1..Len(messages) : DenotesAssistant(messages[k].role)}
        IN  IF A = {} THEN output = [kind |-> "no_reply", text |-> <<>>]
            ELSE LET last == CHOOSE k \in A : \A j \in A : j <= k
                     m    == messages[last]
                     seg  == SegmentTexts(m)
                     segs == DOMAIN seg
                 IN  IF segs # {}
                     THEN output = [kind |-> "reply",
                                    text |-> seg[CHOOSE i \in segs : \A j \in segs : j <= i]]
                     ELSE IF ContentTexts(m) # {}
                     THEN output.kind = "reply" /\ output.text \in ContentTexts(m)
                     ELSE output = [kind |-> "no_text", text |-> <<>>]

\* [user:"hi", assistant:"hello"] was listed and "hello" reported
C9_Witness ==
    /\ mode = "agent" /\ apc = "read"
    /\ messages = <<UserMessage(<<"h", "i">>), MHello>>
    /\ runs[1].status = "completed"
    /\ output = [kind |-> "reply", text |-> Hello]

EndsSession(inp) ==
    \/ inp.eof
    \/ inp.line \in {Quit, Exit, <<"Q", "U", "I", "T">>, <<" ", "E", "x", "i", "t", "\t">>}

Blank(inp) == ~inp.eof /\ \A i \in 1..Len(inp.line) : inp.line[i] \in {" ", "\t"}

IsQuery(inp) == ~EndsSession(inp) /\ ~Blank(inp)

\* C10: one thread per session; quit, exit and end-of-input end the loop and
\* send nothing; every other non-empty input is one post followed by one run
\* on the session's thread, done before the next input is read.
C10_InteractiveLoop ==
    mode = "agent" =>
        LET fwd     == SelectSeq(reads, IsQuery)
            pending == IF apc = "query" THEN 1 ELSE 0
        IN  /\ threads = (IF apc = "init" THEN 0 ELSE 1)
            /\ Len(posts) = Len(fwd) - pending
            /\ Len(runs) = Len(posts)
            /\ \A k \in 1..Len(posts) :
                /\ posts[k].thread = thread_id
                /\ runs[k].thread = thread_id
                /\ posts[k].content = Strip(fwd[k].line)
            /\ apc = "query" => (reads # <<>> /\ IsQuery(reads[Len(reads)]))
            /\ \A k \in 1..Len(reads) :
                EndsSession(reads[k]) => (k = Len(reads) /\ apc \in {"exited", "eof"})
            /\ apc \in {"exited", "eof"} => (reads # <<>> /\ EndsSession(reads[Len(reads)]))

\* a question was forwarded once, then the user typed QUIT
C10_Witness ==
    /\ mode = "agent" /\ apc = "exited"
    /\ reads = <<Line(<<" ", "H", "i", " ">>), Line(<<"Q", "U", "I", "T">>)>>
    /\ posts = <<[thread |-> 1, content |-> <<"H", "i">>]>>
    /\ Len(runs) = 1

====
